---- MODULE Spec2Model ----
(***************************************************************************)
(* HexagonLayer (src/layers/hexagon-layer/index.js): the instanced-         *)
(* geometry update pipeline.  updateLayer is driven by the two dirty flags  *)
(* of this.state, rebuilds the per-instance Float32Array buffers and the    *)
(* screen-space radius/angle, publishes them as uniforms and attributes     *)
(* and clears the flags.                                                    *)
(*                                                                          *)
(* Numbers.  World coordinates, colour channels and screen differences are  *)
(* integers.  A value stored in a Float32Array is rounded to float32        *)
(* (ToFloat32).  The results of Math.sqrt and Math.acos are kept exact and  *)
(* symbolic: a radius is the reduced square of its value, an angle is a     *)
(* sign and the primitive direction vector whose cosine acos is applied to. *)
(* undefined and NaN are the tagged values Undef and NaNv.                  *)
(***************************************************************************)
EXTENDS Integers, Sequences, FiniteSets, TLC

\* Bounds of the model.
MaxItems == 2       \* longest dataset
NumBufIds == 9      \* names for live Float32Arrays (3 held by this.state,
                    \* 3 by the published attributes, 3 being allocated)

VARIABLES
  props,      \* this.props: [data]
  layer,      \* fields of the layer object: isPickable, elevation, radius
  viewport,   \* the camera the projection collaborators read
  state,      \* this.state
  heap,       \* contents of the live Float32Array objects, by identity
  call        \* history: the last updateLayer call (entry flags, steps, error)

vars == <<props, layer, viewport, state, heap, call>>

----------------------------------------------------------------------------
\* JavaScript values

Undef == [t |-> "undefined"]
NaNv == [t |-> "NaN"]

\* A number the calibration computes with: the integer n
Num(n) == [t |-> "num", v |-> n]

Abs(n) == IF n < 0 THEN -n ELSE n

\* Math.sign
Sign(n) == IF n > 0 THEN 1 ELSE IF n < 0 THEN -1 ELSE 0

RECURSIVE Gcd(_, _)
Gcd(a, b) == IF b = 0 THEN a ELSE Gcd(b, a % b)

\* Spacing of the float32 numbers around the magnitude m (24-bit significand).
RECURSIVE Float32Ulp(_)
Float32Ulp(m) == IF m < 2^24 THEN 1 ELSE 2 * Float32Ulp(m \div 2)

\* The store conversion of a Float32Array element: round to nearest, ties to
\* even.
ToFloat32(n) ==
  LET m == Abs(n)
      u == Float32Ulp(m)
      q == m \div u
      r == m % u
      up == \/ 2 * r > u
            \/ 2 * r = u /\ q % 2 = 1
  IN Sign(n) * (IF up THEN (q + 1) * u ELSE q * u)

\* obj[k] = v on a plain object
Put(f, k, v) == [x \in (DOMAIN f) \cup {k} |-> IF x = k THEN v ELSE f[x]]

EmptyObject == [x \in {} |-> Undef]

----------------------------------------------------------------------------
\* Inputs: datasets of HexagonItem, viewports, construction options

\* A vertex is an object, by its property keys: the array [x, y] has the
\* keys "0" and "1", the point {x, y} the keys "x" and "y"
Array2(x, y) == [k \in {"0", "1"} |-> IF k = "0" THEN x ELSE y]
Point(x, y) == [k \in {"x", "y"} |-> IF k = "x" THEN x ELSE y]

\* vertex[k], k = 0 or 1: the number under that key, undefined when the
\* object has no such key
Idx(vertex, k) ==
  LET key == IF k = 0 THEN "0" ELSE "1"
  IN IF key \in DOMAIN vertex THEN Num(vertex[key]) ELSE Undef

VertsFlat == <<Array2(0, 0), Array2(1, 1), Array2(2, 2), Array2(1, 0)>>
VertsTilt == <<Array2(0, 0), Array2(5, 5), Array2(6, 6), Array2(3, 4)>>
VertsSame == <<Array2(2, 2), Array2(1, 0), Array2(0, 1), Array2(2, 2)>>
VertsShort == <<Array2(0, 0), Array2(1, 1), Array2(2, 2)>>
VertsPoints == <<Point(0, 0), Point(1, 1), Point(2, 2), Point(1, -2)>>

\* The catalogue of items: a flat reference hexagon, a tilted one with
\* values past the float32 integer range, one whose reference vertices
\* coincide, one with too few vertices, and one whose vertices are {x, y}
\* points.
Catalogue ==
  << [centroid |-> [x |-> 1, y |-> 2], color |-> <<10, 20, 30>>,
      vertices |-> VertsFlat],
     [centroid |-> [x |-> 16777217, y |-> -3], color |-> <<255, 16777217, 0>>,
      vertices |-> VertsTilt],
     [centroid |-> [x |-> 4, y |-> 5], color |-> <<0, 128, 255>>,
      vertices |-> VertsSame],
     [centroid |-> [x |-> -7, y |-> 0], color |-> <<1, 2, 3>>,
      vertices |-> VertsShort],
     [centroid |-> [x |-> 3, y |-> 3], color |-> <<9, 8, 7>>,
      vertices |-> VertsPoints] >>

\* n consecutive items of the catalogue, from the one at start, cyclically
Window(start, n) ==
  [i \in 1..n |-> Catalogue[((start + i - 2) % Len(Catalogue)) + 1]]

\* props.data: absent (undefined), or an array of items
NoData == [defined |-> FALSE, items |-> <<>>]

Datasets ==
  {NoData} \cup {[defined |-> TRUE, items |-> Window(s, n)] :
                   s \in 1..Len(Catalogue), n \in 0..MaxItems}

\* Two cameras: a viewport change changes the projected reference distance
Viewports == [zoom : {1, 2}]

\* Construction options as the layer's fields: isPickable, and elevation
\* and the radius scale (a ratio num/den), either the defaults 101 and 10
\* or both given.  The constructor passes the scale on as the option
\* dotRadius and _calculateRadiusAndAngle reads this.radius: the field is
\* taken to hold the option.
Layers ==
  {[id |-> "hexagon", isPickable |-> p, elevation |-> o[1], radius |-> o[2]] :
     p \in BOOLEAN,
     o \in {<<101, [num |-> 10, den |-> 1]>>, <<7, [num |-> 1, den |-> 2]>>}}

\* this._numInstances: the number of items of the dataset
numInstances == IF props.data.defined THEN Len(props.data.items) ELSE 0

\* Arithmetic on what the calibration computes with: an operand that is
\* not a number (undefined, NaN) gives NaN
Finite(v) == v.t = "num"
Times(a, b) == IF Finite(a) /\ Finite(b) THEN Num(a.v * b.v) ELSE NaNv
Minus(a, b) == IF Finite(a) /\ Finite(b) THEN Num(a.v - b.v) ELSE NaNv

\* this.project([x, y]): world -> space
project(p) ==
  [x |-> Times(p[1], Num(viewport.zoom)), y |-> Times(p[2], Num(viewport.zoom))]

\* this.screenToSpace(x, y): the second transform, y pointing the other way
screenToSpace(x, y) == [x |-> x, y |-> Minus(Num(0), y)]

----------------------------------------------------------------------------
\* The heap of Float32Array objects

BufIds == 1..NumBufIds
NoBuf == 0          \* state.positions etc. before the first allocation

\* The element of a one-element set: binds an intermediate value
Only(S) == CHOOSE x \in S : TRUE

Min(S) == CHOOSE x \in S : \A y \in S : x <= y

\* The buffers this.state can reach
Refs(st) ==
  ({st.positions, st.colors, st.pickingColors}
     \cup {st.attributes[k].value : k \in DOMAIN st.attributes}) \ {NoBuf}

\* Unreachable buffers are collected
Collect(h, refs) == [i \in BufIds |-> IF i \in refs THEN h[i] ELSE <<>>]

\* new Float32Array(n): a fresh zero-filled array, named c.new
NewFloat32Array(c, n) ==
  LET id == Min(BufIds \ c.used)
  IN [c EXCEPT !.heap[id] = [k \in 1..n |-> 0],
               !.used = @ \cup {id},
               !.new = id]

\* buf[k] = v on a Float32Array: converted to float32; a store past the end
\* is ignored
SetElem(buf, k, v) ==
  IF k < Len(buf) THEN [buf EXCEPT ![k + 1] = ToFloat32(v)] ELSE buf

\* A thrown TypeError: the rest of the call is skipped
Throw(c) == [c EXCEPT !.err = "TypeError"]

----------------------------------------------------------------------------
\* The methods.  c is the call in progress: [st, heap, used, new, steps, err]

NUM_SEGMENTS == 6

\* The element of a Float32Array that Math.cos(PI2 * i / NUM_SEGMENTS) or
\* Math.sin(PI2 * i / NUM_SEGMENTS) is stored into: the float32 nearest to
\* that double, kept symbolic
Float32OfCos(i) == [t |-> "float32", of |-> "cos", i |-> i]
Float32OfSin(i) == [t |-> "float32", of |-> "sin", i |-> i]

\* The loop of getPrimitive from segment i on: three values a segment
RECURSIVE SegmentVertices(_, _)
SegmentVertices(i, n) ==
  IF i < n
  THEN <<Float32OfCos(i), Float32OfSin(i), ToFloat32(0)>>
         \o SegmentVertices(i + 1, n)
  ELSE <<>>

\* Mutant: the loop run up to and including NUM_SEGMENTS, closing the fan
getPrimitive_ClosedFan ==
  [id |-> layer.id, drawType |-> "TRIANGLE_FAN",
   vertices |-> SegmentVertices(0, NUM_SEGMENTS + 1), instanced |-> TRUE]

getPrimitive ==
  [id |-> layer.id, drawType |-> "TRIANGLE_FAN",
   vertices |-> SegmentVertices(0, NUM_SEGMENTS), instanced |-> TRUE]

PositionsLength(N) == N * 3
\* Mutant: the colour buffer sized for four channels an instance
ColorsLength_FourChannels(N) == N * 4
ColorsLength(N) == N * 3
PickingColorsLength(N) == N * 3

\* Mutant: the buffers kept when they are large enough for the dataset
_allocateGLBuffers_ReuseLargeEnough(c) ==
  LET N == numInstances
      c1 == NewFloat32Array(c, PositionsLength(N))
      c2 == [c1 EXCEPT !.st.positions = c1.new]
      c3 == NewFloat32Array(c2, ColorsLength(N))
      c4 == [c3 EXCEPT !.st.colors = c3.new]
      c5 == NewFloat32Array(c4, PickingColorsLength(N))
  IN IF /\ c.st.positions # NoBuf
        /\ Len(c.heap[c.st.positions]) >= PositionsLength(N)
     THEN c
     ELSE IF ~layer.isPickable
     THEN c4
     ELSE [c5 EXCEPT !.st.pickingColors = c5.new]

_allocateGLBuffers(c) ==
  LET N == numInstances
      c1 == NewFloat32Array(c, PositionsLength(N))
      c2 == [c1 EXCEPT !.st.positions = c1.new]
      c3 == NewFloat32Array(c2, ColorsLength(N))
      c4 == [c3 EXCEPT !.st.colors = c3.new]
      c5 == NewFloat32Array(c4, PickingColorsLength(N))
  IN IF ~layer.isPickable
     THEN c4
     ELSE [c5 EXCEPT !.st.pickingColors = c5.new]

PositionsRecord(buf, hexagon, i) ==
  LET b0 == SetElem(buf, i * 3 + 0, hexagon.centroid.x)
      b1 == SetElem(b0, i * 3 + 1, hexagon.centroid.y)
  IN SetElem(b1, i * 3 + 2, layer.elevation)

RECURSIVE FillPositions(_, _, _)
FillPositions(buf, items, i) ==
  IF i >= Len(items) THEN buf
  ELSE Only({FillPositions(b, items, i + 1) :
               b \in {PositionsRecord(buf, items[i + 1], i)}})

_calculatePositions(c) ==
  IF ~props.data.defined
  THEN Throw(c)
  ELSE [c EXCEPT !.heap[c.st.positions] = FillPositions(@, props.data.items, 0)]

\* Mutant: the first two colour channels stored in each other's place
ColorsRecord_Swapped(buf, hexagon, i) ==
  LET b0 == SetElem(buf, i * 3 + 0, hexagon.color[2])
      b1 == SetElem(b0, i * 3 + 1, hexagon.color[1])
  IN SetElem(b1, i * 3 + 2, hexagon.color[3])

ColorsRecord(buf, hexagon, i) ==
  LET b0 == SetElem(buf, i * 3 + 0, hexagon.color[1])
      b1 == SetElem(b0, i * 3 + 1, hexagon.color[2])
  IN SetElem(b1, i * 3 + 2, hexagon.color[3])

RECURSIVE FillColors(_, _, _)
FillColors(buf, items, i) ==
  IF i >= Len(items) THEN buf
  ELSE Only({FillColors(b, items, i + 1) :
               b \in {ColorsRecord(buf, items[i + 1], i)}})

_calculateColors(c) ==
  IF ~props.data.defined
  THEN Throw(c)
  ELSE [c EXCEPT !.heap[c.st.colors] = FillColors(@, props.data.items, 0)]

\* The picking colour of instance i: its index plus one, one byte a channel
PickingRecord(buf, i) ==
  LET b0 == SetElem(buf, i * 3 + 0, (i + 1) % 256)
      b1 == SetElem(b0, i * 3 + 1, ((i + 1) \div 256) % 256)
  IN SetElem(b1, i * 3 + 2, ((i + 1) \div 65536) % 256)

RECURSIVE FillPickingColors(_, _, _)
FillPickingColors(buf, n, i) ==
  IF i >= n THEN buf
  ELSE Only({FillPickingColors(b, n, i + 1) : b \in {PickingRecord(buf, i)}})

_calculatePickingColors(c) ==
  IF ~layer.isPickable
  THEN c
  ELSE [c EXCEPT !.heap[c.st.pickingColors] =
                    FillPickingColors(@, numInstances, 0)]

\* Math.acos(dx / dxy) * -Math.sign(dy), with dxy = Math.sqrt(dx*dx + dy*dy).
\* dxy = 0 gives 0/0 = NaN.  dy = 0 gives acos(..) * -0, a zero.  Otherwise
\* acos is strictly between 0 and pi and the sign is -sign(dy).
AngleOf(dx, dy) ==
  IF ~Finite(dx) \/ ~Finite(dy)
  THEN NaNv
  ELSE IF dx.v = 0 /\ dy.v = 0
  THEN NaNv
  ELSE IF dy.v = 0
  THEN [t |-> "num", sign |-> 0, cx |-> 1, cy |-> 0]
  ELSE LET g == Gcd(Abs(dx.v), Abs(dy.v))
       IN [t |-> "num", sign |-> -Sign(dy.v), cx |-> dx.v \div g,
           cy |-> Abs(dy.v) \div g]

\* Mutant: the scale taken as it is, with no cap at 1
Min1_Uncapped(r) == r

\* Math.min(1, r) of the ratio r
Min1(r) == IF r.num >= r.den THEN [num |-> 1, den |-> 1] ELSE r

\* dxy / 2 * Math.min(1, this.radius): the sign and the reduced square
\* dxy^2 * num^2 / (4 * den^2) of the value
RadiusOf(dx, dy, r) ==
  LET m == Min1(r)
      n == (dx.v * dx.v + dy.v * dy.v) * m.num * m.num
      d == 4 * m.den * m.den
      g == Gcd(n, d)
  IN IF ~Finite(dx) \/ ~Finite(dy)
     THEN NaNv
     ELSE [t |-> "num", sign |-> Sign(n) * Sign(m.num), sqNum |-> n \div g,
           sqDen |-> d \div g]

\* The screen-space difference of the reference vertices 0 and 3
ScreenDelta(vertices) ==
  LET vertex0 == vertices[1]
      vertex3 == vertices[4]
      spaceCoord0 == project(<<Idx(vertex0, 0), Idx(vertex0, 1)>>)
      spaceCoord3 == project(<<Idx(vertex3, 0), Idx(vertex3, 1)>>)
      screenCoord0 == screenToSpace(spaceCoord0.x, spaceCoord0.y)
      screenCoord3 == screenToSpace(spaceCoord3.x, spaceCoord3.y)
  IN [dx |-> Minus(screenCoord0.x, screenCoord3.x),
      dy |-> Minus(screenCoord0.y, screenCoord3.y)]

\* Mutant: a radius once calibrated is kept
_calculateRadiusAndAngle_OnceOnly(c) ==
  IF ~props.data.defined \/ Len(props.data.items) = 0
  THEN c
  ELSE
    LET vertices == props.data.items[1].vertices
    IN IF Len(vertices) < 4
       THEN Throw(c)
       ELSE
         LET d == ScreenDelta(vertices)
         IN IF c.st.radius # Undef
            THEN c
            ELSE [c EXCEPT !.st.angle = AngleOf(d.dx, d.dy),
                           !.st.radius = RadiusOf(d.dx, d.dy, layer.radius)]

_calculateRadiusAndAngle(c) ==
  IF ~props.data.defined \/ Len(props.data.items) = 0
  THEN c
  ELSE
    LET vertices == props.data.items[1].vertices
    IN IF Len(vertices) < 4
       THEN Throw(c)     \* vertex0[0] or vertex3[0] of undefined
       ELSE
         LET d == ScreenDelta(vertices)
         IN [c EXCEPT !.st.angle = AngleOf(d.dx, d.dy),
                      !.st.radius = RadiusOf(d.dx, d.dy, layer.radius)]

updateUniforms(c) ==
  LET u1 == Put(c.st.uniforms, "radius", c.st.radius)
  IN [c EXCEPT !.st.uniforms = Put(u1, "angle", c.st.angle)]

Attribute(buffer) == [value |-> buffer, instanced |-> 1, size |-> 3]

\* Mutant: the picking attribute published whether or not the layer is
\* pickable
updateAttributes_Unguarded(c) ==
  LET a1 == Put(c.st.attributes, "positions", Attribute(c.st.positions))
      a2 == Put(a1, "colors", Attribute(c.st.colors))
  IN [c EXCEPT !.st.attributes =
                  Put(a2, "pickingColors", Attribute(c.st.pickingColors))]

updateAttributes(c) ==
  LET a1 == Put(c.st.attributes, "positions", Attribute(c.st.positions))
      a2 == Put(a1, "colors", Attribute(c.st.colors))
      a3 == Put(a2, "pickingColors", Attribute(c.st.pickingColors))
  IN IF ~layer.isPickable
     THEN [c EXCEPT !.st.attributes = a2]
     ELSE [c EXCEPT !.st.attributes = a3]

\* Mutant: viewportChanged left set
clearFlags_KeepViewport(c) == [c EXCEPT !.st.dataChanged = FALSE]

clearFlags(c) ==
  [c EXCEPT !.st.dataChanged = FALSE, !.st.viewportChanged = FALSE]

\* Mutants of the gates: the fill run on a viewport change too; the
\* calibration run on a viewport change only
RunsFill_AnyFlag(dataChanged, viewportChanged) ==
  dataChanged \/ viewportChanged
RunsCalibrate_ViewportOnly(dataChanged, viewportChanged) == viewportChanged

\* Mutant: the calibration run on a change of the dataset only
RunsCalibrate_DataOnly(dataChanged, viewportChanged) == dataChanged

\* The two gates of updateLayer
RunsFill(dataChanged, viewportChanged) == dataChanged
RunsCalibrate(dataChanged, viewportChanged) == viewportChanged \/ dataChanged

\* Mutant: the flags cleared on entry, before the recompute
Statements_ClearFirst(dataChanged, viewportChanged) ==
  <<"clearFlags">>
  \o (IF RunsFill(dataChanged, viewportChanged)
      THEN <<"_allocateGLBuffers", "_calculatePositions", "_calculateColors",
             "_calculatePickingColors">>
      ELSE <<>>)
  \o (IF RunsCalibrate(dataChanged, viewportChanged)
      THEN <<"_calculateRadiusAndAngle">>
      ELSE <<>>)
  \o <<"updateUniforms", "updateAttributes">>

\* The statements updateLayer runs, in program order, for the flags it was
\* entered with
Statements(dataChanged, viewportChanged) ==
  (IF RunsFill(dataChanged, viewportChanged)
   THEN <<"_allocateGLBuffers", "_calculatePositions", "_calculateColors",
          "_calculatePickingColors">>
   ELSE <<>>)
  \o (IF RunsCalibrate(dataChanged, viewportChanged)
      THEN <<"_calculateRadiusAndAngle">>
      ELSE <<>>)
  \o <<"updateUniforms", "updateAttributes", "clearFlags">>

\* One statement, by name
Statement(name, c) ==
  CASE name = "_allocateGLBuffers" -> _allocateGLBuffers(c)
    [] name = "_calculatePositions" -> _calculatePositions(c)
    [] name = "_calculateColors" -> _calculateColors(c)
    [] name = "_calculatePickingColors" -> _calculatePickingColors(c)
    [] name = "_calculateRadiusAndAngle" -> _calculateRadiusAndAngle(c)
    [] name = "updateUniforms" -> updateUniforms(c)
    [] name = "updateAttributes" -> updateAttributes(c)
    [] name = "clearFlags" -> clearFlags(c)

\* A statement is entered: recorded in the call's steps
Enter(name, c) == [c EXCEPT !.steps = Append(@, name)]

\* The statements run one after the other; an exception ends the call
RECURSIVE Run(_, _)
Run(names, c) ==
  IF names = <<>> \/ c.err # "none"
  THEN c
  ELSE Only({Run(Tail(names), c1) :
               c1 \in {Statement(Head(names), Enter(Head(names), c))}})

updateLayer(c0) ==
  Run(Statements(c0.st.dataChanged, c0.st.viewportChanged), c0)

----------------------------------------------------------------------------
\* The state machine

NoCall ==
  [op |-> "none", dataChanged |-> FALSE, viewportChanged |-> FALSE,
   steps |-> <<>>, err |-> "none"]

\* After construction and initializeState: the primitive built, nothing
\* allocated, calibrated or published yet; the new dataset and camera are
\* both pending.
Init ==
  /\ props \in [data : Datasets]
  /\ layer \in Layers
  /\ viewport \in Viewports
  /\ state = [positions |-> NoBuf, colors |-> NoBuf, pickingColors |-> NoBuf,
              radius |-> Undef, angle |-> Undef,
              dataChanged |-> TRUE, viewportChanged |-> TRUE,
              uniforms |-> EmptyObject, attributes |-> EmptyObject,
              primitive |-> getPrimitive]
  /\ heap = [i \in BufIds |-> <<>>]
  /\ call = NoCall

\* The lifecycle replaces the dataset and marks it changed
SetData ==
  \E d \in Datasets :
    /\ props' = [props EXCEPT !.data = d]
    /\ state' = [state EXCEPT !.dataChanged = TRUE]
    /\ call' = NoCall
    /\ UNCHANGED <<layer, viewport, heap>>

\* The lifecycle moves the camera and marks the viewport changed
SetViewport ==
  \E v \in Viewports :
    /\ viewport' = v
    /\ state' = [state EXCEPT !.viewportChanged = TRUE]
    /\ call' = NoCall
    /\ UNCHANGED <<props, layer, heap>>

\* The call as updateLayer is entered: this.state and the live buffers
EntryCall ==
  [st |-> state, heap |-> heap, used |-> Refs(state), new |-> NoBuf,
   steps |-> <<>>, err |-> "none"]

UpdateLayer ==
  LET c == updateLayer(EntryCall)
  IN /\ state' = c.st
     /\ heap' = Collect(c.heap, Refs(c.st))
     /\ call' = [op |-> "updateLayer", dataChanged |-> state.dataChanged,
                 viewportChanged |-> state.viewportChanged,
                 steps |-> c.steps, err |-> c.err]
     /\ UNCHANGED <<props, layer, viewport>>

Next == SetData \/ SetViewport \/ UpdateLayer

Spec == Init /\ [][Next]_vars

----------------------------------------------------------------------------
\* Vocabulary of the properties

\* The state is the one an updateLayer call has just left
Updated == call.op = "updateLayer"

\* ... and the call returned without an exception
Completed == Updated /\ call.err = "none"

\* The statements of a full pass, in program order
FullPass ==
  <<"_allocateGLBuffers", "_calculatePositions", "_calculateColors",
    "_calculatePickingColors", "_calculateRadiusAndAngle", "updateUniforms",
    "updateAttributes", "clearFlags">>

PublishOnly == <<"updateUniforms", "updateAttributes", "clearFlags">>

IsPrefix(s, t) == Len(s) <= Len(t) /\ \A i \in 1..Len(s) : s[i] = t[i]

Ran(name) == \E i \in 1..Len(call.steps) : call.steps[i] = name

\* The dataset of the call
Data == props.data.items
N == Len(Data)

\* The buffers of this.state
StateBuffers(st) == {st.positions, st.colors, st.pickingColors} \ {NoBuf}

\* The uniforms and attributes hold what this.state holds
UniformsPublished ==
  /\ DOMAIN state.uniforms = {"radius", "angle"}
  /\ state.uniforms["radius"] = state.radius
  /\ state.uniforms["angle"] = state.angle

AttributesPublished ==
  /\ {"positions", "colors"} \subseteq DOMAIN state.attributes
  /\ state.attributes["positions"] = Attribute(state.positions)
  /\ state.attributes["colors"] = Attribute(state.colors)

\* The reference vertices of the dataset are there
HasReference == N > 0 /\ Len(Data[1].vertices) >= 4

\* What a calibration of the current dataset and viewport gives
CalibratedNow ==
  LET d == ScreenDelta(Data[1].vertices)
  IN /\ state.angle = AngleOf(d.dx, d.dy)
     /\ state.radius = RadiusOf(d.dx, d.dy, layer.radius)

----------------------------------------------------------------------------
\* C1.  An updateLayer call entered with dataChanged set runs the allocation
\* and the position, colour and picking fill, then the calibration, then the
\* publish and the clearing of the flags, in this order and whatever
\* viewportChanged is: the statements it ran are an initial part of the full
\* pass, with a dataset present the calibration is among them, and a call
\* that returns has run them all and has published the buffers allocated
\* and the radius and angle calibrated for the current dataset and viewport.
C1_DataChangedRunsFillThenCalibrateThenPublish ==
  (Updated /\ call.dataChanged) =>
    /\ IsPrefix(call.steps, FullPass)
    /\ props.data.defined =>
         /\ Len(call.steps) >= 5
         /\ call.steps[5] = "_calculateRadiusAndAngle"
    /\ call.err = "none" =>
         /\ call.steps = FullPass
         /\ UniformsPublished
         /\ AttributesPublished
         /\ HasReference => CalibratedNow

\* C1 witness: a completed call entered with dataChanged alone, on a
\* dataset with a reference hexagon
C1_Witness ==
  /\ Completed
  /\ call.dataChanged /\ ~call.viewportChanged
  /\ HasReference
  /\ Finite(state.uniforms["radius"])

\* C2.  Every updateLayer call, whatever the flags and whatever the dataset
\* (an array of items of any length, the empty one included), runs the
\* terminal step: it publishes radius and angle as uniforms and the buffers
\* as attributes and leaves both flags false.
C2_TerminalStepAlways ==
  (Updated /\ props.data.defined) =>
    /\ Len(call.steps) >= 3
    /\ SubSeq(call.steps, Len(call.steps) - 2, Len(call.steps)) = PublishOnly
    /\ UniformsPublished
    /\ AttributesPublished
    /\ ~state.dataChanged /\ ~state.viewportChanged

\* C3.  An updateLayer call that directly follows a completed updateLayer
\* call, with no change of dataset, viewport or flags between the two,
\* allocates, fills and calibrates nothing, publishes the same uniforms and
\* attributes (same buffers, same contents) and leaves both flags false.
C3_SecondCallRepublishes ==
  [][(Completed /\ call'.op = "updateLayer") =>
       /\ call'.steps = PublishOnly
       /\ call'.err = "none"
       /\ state'.uniforms = state.uniforms
       /\ state'.attributes = state.attributes
       /\ state' = state
       /\ heap' = heap
       /\ ~state'.dataChanged /\ ~state'.viewportChanged]_vars

\* C3 witness: a call entered with no flag set (so right after a completed
\* call), republishing a calibrated radius and non-empty buffers
C3_Witness ==
  /\ Completed
  /\ ~call.dataChanged /\ ~call.viewportChanged
  /\ call.steps = PublishOnly
  /\ UniformsPublished /\ AttributesPublished
  /\ Finite(state.uniforms["radius"])
  /\ Len(heap[state.attributes["positions"].value]) > 0

\* C4.  An updateLayer call entered with viewportChanged alone skips the
\* allocation and the fill: positions, colors and pickingColors are the
\* same buffers with the same contents, and of this.state only radius and
\* angle (and what the terminal step writes) may differ.
C4_ViewportOnlyKeepsBuffers ==
  [][(call'.op = "updateLayer" /\ ~state.dataChanged /\ state.viewportChanged) =>
       /\ state'.positions = state.positions
       /\ state'.colors = state.colors
       /\ state'.pickingColors = state.pickingColors
       /\ \A b \in StateBuffers(state) : heap'[b] = heap[b]
       /\ IsPrefix(call'.steps,
                   <<"_calculateRadiusAndAngle">> \o PublishOnly)
       /\ state' = [state EXCEPT !.radius = state'.radius,
                                  !.angle = state'.angle,
                                  !.uniforms = state'.uniforms,
                                  !.attributes = state'.attributes,
                                  !.dataChanged = FALSE,
                                  !.viewportChanged = FALSE]]_vars

\* C4 witness: a completed call entered with viewportChanged alone that
\* calibrated a layer holding non-empty buffers
C4_Witness ==
  /\ Completed
  /\ ~call.dataChanged /\ call.viewportChanged
  /\ Ran("_calculateRadiusAndAngle")
  /\ HasReference /\ CalibratedNow
  /\ Len(heap[state.positions]) > 0

\* C5.  With an empty or absent dataset, an updateLayer call entered with a
\* flag set raises no error, leaves zero-length positions and colors when
\* dataChanged was set, and keeps radius and angle as they were.
C5_EmptyOrAbsentDataset ==
  [][(/\ call'.op = "updateLayer"
      /\ state.dataChanged \/ state.viewportChanged
      /\ ~props.data.defined \/ N = 0) =>
       /\ call'.err = "none"
       /\ state.dataChanged =>
            /\ Len(heap'[state'.positions]) = 0
            /\ Len(heap'[state'.colors]) = 0
       /\ state'.radius = state.radius
       /\ state'.angle = state.angle]_vars

\* C6.  When the reference vertices 0 and 3 of item 0 project to the same
\* screen point, the calibration leaves a finite angle and radius in
\* this.state and in the published uniforms.
C6_DegenerateProjectionFinite ==
  (/\ Updated
   /\ Ran("_calculateRadiusAndAngle")
   /\ HasReference
   /\ ScreenDelta(Data[1].vertices) = [dx |-> Num(0), dy |-> Num(0)]) =>
    /\ Finite(state.angle) /\ Finite(state.radius)
    /\ Ran("updateUniforms") =>
         /\ Finite(state.uniforms["angle"])
         /\ Finite(state.uniforms["radius"])

\* C7.  A dataset whose item 0 has fewer than 4 vertices is refused with an
\* InvalidInput error at the entry of updateLayer: when the error is raised
\* no statement of the pass has run and this.state is as it was.
C7_InvalidInputAtBoundary ==
  [][(/\ call'.op = "updateLayer"
      /\ N > 0
      /\ Len(Data[1].vertices) < 4) =>
       /\ call'.err = "InvalidInput"
       /\ call'.steps = <<>>
       /\ state' = state
       /\ heap' = heap]_vars

\* C8.  After an updateLayer call entered with dataChanged set, positions
\* and colors both have exactly 3 * N elements, N the number of items of
\* the dataset (none for an empty or absent one).
C8_BufferLengths ==
  (Updated /\ call.dataChanged) =>
    /\ Len(heap[state.positions]) = 3 * N
    /\ Len(heap[state.colors]) = 3 * N

\* C8 witness: such a call on a dataset of at least two items
C8_Witness ==
  /\ Updated /\ call.dataChanged
  /\ N >= 2
  /\ Len(heap[state.positions]) = 3 * N

\* C9.  Once an update has run, this.state holds a picking buffer iff the
\* layer is pickable; after an update entered with dataChanged set it has
\* 3 * N elements; a non-pickable layer never has a pickingColors
\* attribute, and a pickable layer has one, holding the picking buffer,
\* whenever the attributes are published.
C9_PickingIffPickable ==
  /\ (Updated \/ state.positions # NoBuf) =>
       (layer.isPickable <=> state.pickingColors # NoBuf)
  /\ (layer.isPickable /\ Updated /\ call.dataChanged) =>
       Len(heap[state.pickingColors]) = 3 * N
  /\ ~layer.isPickable =>
       /\ state.pickingColors = NoBuf
       /\ "pickingColors" \notin DOMAIN state.attributes
  /\ (layer.isPickable /\ "positions" \in DOMAIN state.attributes) =>
       /\ "pickingColors" \in DOMAIN state.attributes
       /\ state.attributes["pickingColors"].value # NoBuf
  /\ (layer.isPickable /\ Updated /\ Ran("updateAttributes")) =>
       state.attributes["pickingColors"] = Attribute(state.pickingColors)

\* C9 witness: a pickable layer after a completed update entered with
\* dataChanged set on a non-empty dataset
C9_Witness ==
  /\ layer.isPickable
  /\ Completed /\ call.dataChanged
  /\ N >= 1
  /\ Len(heap[state.attributes["pickingColors"].value]) = 3 * N

\* C10 as stated.  After an updateLayer call entered with dataChanged set,
\* positions holds centroid.x, centroid.y and the elevation of every item
\* and colors holds its three colour channels, all unchanged.
C10_FillVerbatim ==
  (Updated /\ call.dataChanged /\ props.data.defined) =>
    \A i \in 0..(N - 1) :
      /\ heap[state.positions][3 * i + 1] = Data[i + 1].centroid.x
      /\ heap[state.positions][3 * i + 2] = Data[i + 1].centroid.y
      /\ heap[state.positions][3 * i + 3] = layer.elevation
      /\ heap[state.colors][3 * i + 1] = Data[i + 1].color[1]
      /\ heap[state.colors][3 * i + 2] = Data[i + 1].color[2]
      /\ heap[state.colors][3 * i + 3] = Data[i + 1].color[3]

\* A number a float32 holds exactly (here: an integer of at most 24 bits)
Float32Exact(v) == Abs(v) <= 2^24

\* The element of a Float32Array that v was stored into
StoredAs(e, v) ==
  /\ e = ToFloat32(v)
  /\ Float32Exact(v) => e = v

\* C10 amended.  After an updateLayer call entered with dataChanged set,
\* positions holds centroid.x, centroid.y and the elevation of every item
\* and colors holds its three colour channels, each rounded to the nearest
\* float32: unchanged when a float32 holds the value exactly (the elevation
\* 101 and the channels 0..255 among them), and with no other transform.
C10_FillRoundedToFloat32 ==
  (Updated /\ call.dataChanged /\ props.data.defined) =>
    \A i \in 0..(N - 1) :
      /\ StoredAs(heap[state.positions][3 * i + 1], Data[i + 1].centroid.x)
      /\ StoredAs(heap[state.positions][3 * i + 2], Data[i + 1].centroid.y)
      /\ StoredAs(heap[state.positions][3 * i + 3], layer.elevation)
      /\ StoredAs(heap[state.colors][3 * i + 1], Data[i + 1].color[1])
      /\ StoredAs(heap[state.colors][3 * i + 2], Data[i + 1].color[2])
      /\ StoredAs(heap[state.colors][3 * i + 3], Data[i + 1].color[3])

\* C10 witness: such a call on at least two items, one of them with a
\* centroid no float32 holds
C10_Witness ==
  /\ Updated /\ call.dataChanged
  /\ N >= 2
  /\ \E i \in 0..(N - 1) :
       /\ ~Float32Exact(Data[i + 1].centroid.x)
       /\ heap[state.positions][3 * i + 1] # Data[i + 1].centroid.x
       /\ heap[state.positions][3 * i + 3] = layer.elevation

\* The radius scales the radius formula is compared over
Scales ==
  {[num |-> 0, den |-> 1], [num |-> 1, den |-> 4], [num |-> 1, den |-> 2],
   [num |-> 1, den |-> 1], [num |-> 3, den |-> 2], [num |-> 10, den |-> 1]}

\* r <= s for ratios with positive denominators
RatioLeq(r, s) == r.num * s.den <= s.num * r.den

\* a <= b for two non-negative radii, by their squares
RadiusLeq(a, b) == a.sqNum * b.sqDen <= b.sqNum * a.sqDen

\* The screen difference of the reference vertices of the dataset, as the
\* calibration computes it, and whether it is a pair of numbers
Delta == ScreenDelta(Data[1].vertices)
DeltaIsNumber == Finite(Delta.dx) /\ Finite(Delta.dy)

\* The squared screen distance dxy^2, when it is a number
Dxy2 == Delta.dx.v * Delta.dx.v + Delta.dy.v * Delta.dy.v

\* The call calibrated on a dataset with its reference vertices
Calibrated == Updated /\ Ran("_calculateRadiusAndAngle") /\ HasReference

\* C11.  After a calibration on a non-empty dataset the radius is
\* (dxy / 2) * min(1, dotRadius), dxy the screen distance the calibration
\* computed: a number exactly when dxy is one, its square then dxy^2 / 4
\* times the square of the scale when the scale is at most 1 and dxy^2 / 4
\* when it is larger (the default 10 among them), so it is never above
\* dxy / 2; and over the scales, the radius the formula gives for the same
\* vertices is non-decreasing up to 1 and the same from 1 on.
C11_RadiusIsHalfDistanceTimesCappedScale ==
  Calibrated =>
    /\ Finite(state.radius) <=> DeltaIsNumber
    /\ DeltaIsNumber =>
         LET r == layer.radius
             One == [num |-> 1, den |-> 1]
         IN /\ state.radius.sign >= 0
            /\ RatioLeq(r, One) =>
                 state.radius.sqNum * 4 * r.den * r.den =
                   state.radius.sqDen * Dxy2 * r.num * r.num
            /\ ~RatioLeq(r, One) =>
                 state.radius.sqNum * 4 = state.radius.sqDen * Dxy2
            /\ state.radius.sqNum * 4 <= state.radius.sqDen * Dxy2
            /\ \A s \in Scales :
                 LET viaS == RadiusOf(Delta.dx, Delta.dy, s)
                 IN /\ RatioLeq(s, r) => RadiusLeq(viaS, state.radius)
                    /\ RatioLeq(r, s) => RadiusLeq(state.radius, viaS)
                    /\ ~RatioLeq(s, One) =>
                         viaS.sqNum * 4 = viaS.sqDen * Dxy2
            /\ \A s, t \in Scales :
                 RatioLeq(s, t) =>
                   RadiusLeq(RadiusOf(Delta.dx, Delta.dy, s),
                             RadiusOf(Delta.dx, Delta.dy, t))

\* C11 witness: a completed calibration with the default scale 10 on
\* reference vertices a positive distance apart, the radius half of it
C11_Witness ==
  /\ Completed /\ Calibrated
  /\ layer.radius = [num |-> 10, den |-> 1]
  /\ DeltaIsNumber
  /\ Dxy2 > 0
  /\ state.uniforms["radius"].sqNum * 4 = state.uniforms["radius"].sqDen * Dxy2

\* A vertex given as the point {x, y}
IsPoint(vertex) == DOMAIN vertex = {"x", "y"}

\* The projected screen difference of two reference vertices given as
\* {x, y} points
PointDelta(vertex0, vertex3) ==
  LET spaceCoord0 == project(<<Num(vertex0["x"]), Num(vertex0["y"])>>)
      spaceCoord3 == project(<<Num(vertex3["x"]), Num(vertex3["y"])>>)
      screenCoord0 == screenToSpace(spaceCoord0.x, spaceCoord0.y)
      screenCoord3 == screenToSpace(spaceCoord3.x, spaceCoord3.y)
  IN [dx |-> Minus(screenCoord0.x, screenCoord3.x),
      dy |-> Minus(screenCoord0.y, screenCoord3.y)]

\* C12.  For reference vertices given as {x, y} points whose projected
\* screen difference has dx # 0, the calibrated angle is a number whose sign
\* is the opposite of the sign of dy = screenCoord0.y - screenCoord3.y:
\* negative when dy > 0, positive when dy < 0, and 0 when dy = 0.
C12_AngleSignOppositeOfDy ==
  (/\ Calibrated
   /\ IsPoint(Data[1].vertices[1])
   /\ IsPoint(Data[1].vertices[4])) =>
    LET d == PointDelta(Data[1].vertices[1], Data[1].vertices[4])
    IN d.dx.v # 0 =>
         /\ Finite(state.angle)
         /\ state.angle.sign = -Sign(d.dy.v)

\* What holds instead: for reference vertices given as [x, y] arrays (the
\* form lines 172-173 read) with a screen difference other than (0, 0), the
\* angle is a number whose sign is the opposite of the sign of dy, 0 when
\* dy = 0; for {x, y} points the angle is NaN.
AngleSignOnArraysNaNOnPoints ==
  Calibrated =>
    /\ (DeltaIsNumber /\ (Delta.dx.v # 0 \/ Delta.dy.v # 0)) =>
         /\ Finite(state.angle)
         /\ state.angle.sign = -Sign(Delta.dy.v)
    /\ (IsPoint(Data[1].vertices[1]) \/ IsPoint(Data[1].vertices[4])) =>
         state.angle = NaNv

\* An angle sign * acos(cx / |(cx, cy)|) is in (-pi, pi]: acos is in
\* [0, pi], so only -pi (sign -1 on the direction (-1, 0)) is outside
InHalfOpenTurn(a) == ~(a.sign = -1 /\ a.cy = 0 /\ a.cx < 0)

\* C13.  After every completed updateLayer call, in any sequence of updates
\* from a freshly initialized layer, the first updates on an empty dataset
\* included, the published uniforms radius and angle are defined numbers,
\* with radius >= 0 and angle in (-pi, pi].
C13_UniformsDefinedAndInRange ==
  Completed =>
    /\ DOMAIN state.uniforms = {"radius", "angle"}
    /\ Finite(state.uniforms["radius"])
    /\ state.uniforms["radius"].sign >= 0
    /\ Finite(state.uniforms["angle"])
    /\ InHalfOpenTurn(state.uniforms["angle"])

\* What holds of every completed call instead: each published uniform is
\* undefined (nothing calibrated yet), NaN, or a number in the range
UniformsUndefinedNaNOrInRange ==
  Completed =>
    /\ DOMAIN state.uniforms = {"radius", "angle"}
    /\ Finite(state.uniforms["radius"]) => state.uniforms["radius"].sign >= 0
    /\ Finite(state.uniforms["angle"]) => InHalfOpenTurn(state.uniforms["angle"])

\* C14.  The primitive mesh initializeState built is there at all times
\* and no updateLayer call has changed it: draw type TRIANGLE_FAN,
\* instanced set, exactly 18 values, for i = 0..5 in ascending order the
\* float32 of cos(2 pi i / 6), the float32 of sin(2 pi i / 6) and 0.
C14_PrimitiveBuiltOnceNeverChanged ==
  /\ DOMAIN state.primitive = {"id", "drawType", "vertices", "instanced"}
  /\ state.primitive.id = layer.id
  /\ state.primitive.drawType = "TRIANGLE_FAN"
  /\ state.primitive.instanced = TRUE
  /\ Len(state.primitive.vertices) = 18
  /\ \A i \in 0..5 :
       /\ state.primitive.vertices[3 * i + 1] =
            [t |-> "float32", of |-> "cos", i |-> i]
       /\ state.primitive.vertices[3 * i + 2] =
            [t |-> "float32", of |-> "sin", i |-> i]
       /\ state.primitive.vertices[3 * i + 3] = 0

\* C14 witness: the primitive after a completed updateLayer call that
\* allocated and filled non-empty buffers and calibrated
C14_Witness ==
  /\ Completed /\ call.steps = FullPass
  /\ N >= 1
  /\ Len(heap[state.positions]) = 3 * N
  /\ Len(state.primitive.vertices) = 18
  /\ state.primitive.vertices[18] = 0

\* The buffers the attributes of st publish
PublishedBuffers(st) ==
  {st.attributes[k].value : k \in DOMAIN st.attributes} \ {NoBuf}

\* What a buffer filled from the current dataset alone holds: three values
\* an item, each stored as a float32
DerivedPositions ==
  [k \in 1..(3 * N) |->
     LET hexagon == Data[((k - 1) \div 3) + 1]
     IN ToFloat32(CASE (k - 1) % 3 = 0 -> hexagon.centroid.x
                    [] (k - 1) % 3 = 1 -> hexagon.centroid.y
                    [] OTHER -> layer.elevation)]
DerivedColors ==
  [k \in 1..(3 * N) |->
     ToFloat32(Data[((k - 1) \div 3) + 1].color[((k - 1) % 3) + 1])]

\* C15.  An updateLayer call entered with dataChanged set replaces the
\* buffers and mutates none: every buffer this.state held or had published
\* before the call has the contents it had, up to the end of the call; the
\* buffers of this.state after the call are new objects, none of them one
\* held or published before; and positions and colors hold exactly the
\* 3 * N values derived from the current dataset (none for an absent one),
\* so nothing of a former, longer dataset.
C15_DataChangedReplacesBuffers ==
  [][(call'.op = "updateLayer" /\ state.dataChanged) =>
       LET c == updateLayer(EntryCall)
       IN /\ \A b \in Refs(state) : c.heap[b] = heap[b]
          /\ \A b \in PublishedBuffers(state) \cap Refs(state') :
               heap'[b] = heap[b]
          /\ StateBuffers(state') \cap Refs(state) = {}
          /\ state'.positions # NoBuf /\ state'.colors # NoBuf
          /\ heap'[state'.positions] = DerivedPositions
          /\ heap'[state'.colors] = DerivedColors]_vars

\* C15 witness: after a call entered with dataChanged set on a dataset
\* shorter than the one published before; the call stopped in the
\* calibration, so the attributes still hold the former, longer buffers, with
\* their contents, next to the new ones filled from the current dataset
C15_Witness ==
  /\ Updated /\ call.dataChanged
  /\ Ran("_calculateColors")
  /\ N >= 1
  /\ "positions" \in DOMAIN state.attributes
  /\ state.attributes["positions"].value # state.positions
  /\ Len(heap[state.attributes["positions"].value]) > 3 * N
  /\ heap[state.positions] = DerivedPositions
  /\ heap[state.colors] = DerivedColors

\* Vertex lists that agree with item 0 of the dataset in the vertices 0
\* and 3 and differ from it in the others
ReferenceVariants ==
  LET vs == Data[1].vertices
      Others == {vs[2], vs[3], Array2(7, -9), Point(5, 5)}
  IN {[vs EXCEPT ![2] = a, ![3] = b] : a, b \in Others}
       \cup {Append(vs, a) : a \in Others}

\* C16.  Every calibration on a non-empty dataset is a full rebuild:
\* whatever the updates before it, the items after item 0 and the vertices
\* of item 0 other than 0 and 3, the radius and angle it leaves are the
\* values the radius and angle formulas give for vertices[0] and
\* vertices[3] of item 0 under the current projection and radius scale.
C16_CalibrationIsFunctionOfReference ==
  Calibrated =>
    \A vs \in ReferenceVariants :
      LET d == ScreenDelta(vs)
      IN /\ state.angle = AngleOf(d.dx, d.dy)
         /\ state.radius = RadiusOf(d.dx, d.dy, layer.radius)

\* C16 witness: a calibration on a dataset of two items that followed an
\* earlier completed update (the call was entered with viewportChanged
\* alone), leaving a non-zero angle
C16_Witness ==
  /\ Completed /\ Calibrated
  /\ call.viewportChanged /\ ~call.dataChanged
  /\ N >= 2
  /\ Finite(state.angle) /\ state.angle.sign # 0
  /\ Finite(state.radius) /\ state.radius.sign > 0

\* An updateLayer call of a layer that recomputes everything: the call made
\* now, on the current dataset and viewport, with both flags set
Recomputed ==
  updateLayer([EntryCall EXCEPT !.st.dataChanged = TRUE,
                                !.st.viewportChanged = TRUE])

\* The contents of the buffer a call c has published under the name k
PublishedContents(c, k) == c.heap[c.st.attributes[k].value]

\* C17.  After every completed updateLayer call on a non-empty dataset,
\* whatever the dataset replacements, viewport changes and calls before
\* it, the published positions and colors (their contents) and the published
\* radius and angle are those a layer that recomputes everything would
\* publish for the current dataset and viewport.
C17_PublishedEqualsFullRecompute ==
  (Completed /\ N > 0) =>
    /\ Recomputed.err = "none"
    /\ {"positions", "colors"} \subseteq DOMAIN state.attributes
    /\ heap[state.attributes["positions"].value] =
         PublishedContents(Recomputed, "positions")
    /\ heap[state.attributes["colors"].value] =
         PublishedContents(Recomputed, "colors")
    /\ heap[state.attributes["positions"].value] = DerivedPositions
    /\ heap[state.attributes["colors"].value] = DerivedColors
    /\ state.uniforms = Recomputed.st.uniforms
    /\ state.uniforms["radius"] = RadiusOf(Delta.dx, Delta.dy, layer.radius)
    /\ state.uniforms["angle"] = AngleOf(Delta.dx, Delta.dy)

\* C17 witness: a completed call that skipped the fill (entered with
\* viewportChanged alone, under the second camera) and publishes the buffers
\* of two items filled before and the radius calibrated now
C17_Witness ==
  /\ Completed
  /\ call.steps = <<"_calculateRadiusAndAngle">> \o PublishOnly
  /\ viewport.zoom = 2
  /\ N = 2
  /\ heap[state.attributes["positions"].value] = DerivedPositions
  /\ DeltaIsNumber
  /\ state.uniforms["radius"] = RadiusOf(Delta.dx, Delta.dy, layer.radius)
  /\ state.uniforms["radius"].sign > 0

\* The call c ended with an exception raised by the calibration
AbortedInCalibration(c) ==
  /\ c.op = "updateLayer"
  /\ c.err # "none"
  /\ c.steps # <<>>
  /\ c.steps[Len(c.steps)] = "_calculateRadiusAndAngle"

\* C18.  An updateLayer call that aborts with an exception in the
\* calibration has cleared no flag and published nothing: both flags have
\* their values of entry, the uniforms and the attribute descriptors, and
\* the contents of the published buffers, are as before the call; and the
\* updateLayer call that follows it runs the allocation, the fill and the
\* calibration again.
C18_AbortInCalibrationPublishesNothing ==
  [][/\ AbortedInCalibration(call') =>
           (/\ state'.dataChanged = state.dataChanged
            /\ state'.viewportChanged = state.viewportChanged
            /\ state'.uniforms = state.uniforms
            /\ state'.attributes = state.attributes
            /\ \A b \in PublishedBuffers(state) : heap'[b] = heap[b]
            /\ state'.dataChanged \/ state'.viewportChanged)
     /\ (AbortedInCalibration(call) /\ call'.op = "updateLayer") =>
           (/\ Len(call'.steps) >= 5
            /\ SubSeq(call'.steps, 1, 5) = SubSeq(FullPass, 1, 5))]_vars

\* C18 witness: after a call that aborted in the calibration (item 0 has
\* three vertices), the flags still set and the uniforms and attributes
\* those an earlier completed update published
C18_Witness ==
  /\ AbortedInCalibration(call)
  /\ N >= 1 /\ Len(Data[1].vertices) = 3
  /\ state.dataChanged
  /\ DOMAIN state.uniforms = {"radius", "angle"}
  /\ Finite(state.uniforms["radius"])
  /\ "positions" \in DOMAIN state.attributes
  /\ Len(heap[state.attributes["positions"].value]) > 0

====
